---- MODULE Spec2Model ----
(***************************************************************************)
(* A model of the retrieval pipelines of the repository: the hybrid score  *)
(* fusion (__hybrid_rerank), the assembly of the result records            *)
(* (__create_scores_dict, save_trec), the stages of compute_results of    *)
(* the six pipelines, evaluate and the cleaning of the queries; the        *)
(* save_trec of BasePipeline, the search of DocumentsIndex and the         *)
(* DownloadFile of utils/manage_files.py.                                  *)
(*                                                                         *)
(* Scores are exact rationals; the rounding of floating point is not       *)
(* modelled.  A Python dict is a sequence of <<key, value>> pairs with     *)
(* distinct keys, in insertion order.  A str that the code takes apart (a  *)
(* path, a query) is the sequence of its characters.                       *)
(***************************************************************************)
EXTENDS Integers, Sequences, FiniteSets, TLC

VARIABLES
    \* ---- the fusion step: the arguments of __hybrid_rerank, one topic
    variant,              \* which file's __hybrid_rerank runs
    dense_results,        \* the dense candidate list of the topic
    sparse_results,       \* the sparse candidate list of the topic
    alpha,                \* <<numerator, denominator>>
    k,                    \* the result limit
    normalization,
    weight_on_dense,
    hybrid_result,        \* outcome of the invocation
    hybrid_result_again,  \* outcome of a second invocation, same arguments
    \* ---- the assembly: __create_scores_dict, then save_trec
    model_name,           \* self.model_name, the tag of the run
    scores,               \* positional key -> candidate list
    topics,               \* the topic ids, ascending
    data,                 \* topic id -> [ids, scores]
    res,                  \* the rows of the results table
    stage,                \* the position in the assembly or in compute_results
    \* ---- a run of compute_results
    path_qrels,           \* the ground-truth paths given (a str is a list of one)
    fs,                   \* the ground-truth files: path -> [exists, column]
    questions_list,
    evaluate,             \* the evaluate argument
    clean_query,          \* the clean_query argument
    save,                 \* the save argument of evaluate
    failing,              \* the collaborator that raises in this run, if any
    queries,              \* the queries resolved for the topics
    calls,                \* the calls made to the collaborators, in order
    results_file,         \* the results file of the run: [exists, rows]
    res_path,             \* the path save_trec returned, <<>> for None
    mean_scores,          \* evaluate's dict: qrel_name -> report
    report_files,         \* the names of the nDCG files written
    result,               \* what compute_results has returned or raised
    \* ---- the objects and the files they leave behind
    self,                 \* the fields of the object: attribute -> value
    downloads,            \* the download directory: path -> chunks written
    query,                \* the query argument of DocumentsIndex.search
    corpus_df             \* its corpus_df argument: "None" or "given"

fusionVars == <<variant, dense_results, sparse_results, alpha, k, normalization,
                weight_on_dense, hybrid_result, hybrid_result_again>>

assemblyData == <<model_name, scores, topics, data, res>>
assemblyVars == <<assemblyData, stage>>

runInputs == <<path_qrels, fs, questions_list, evaluate, clean_query, save, failing>>
evaluateVars == <<res_path, mean_scores, report_files>>
objectVars == <<self, downloads, query, corpus_df>>
runVars == <<runInputs, objectVars, queries, calls, results_file, evaluateVars, result>>

vars == <<fusionVars, assemblyVars, runVars>>

\* ------------------------------------------------------------------ bounds

\* Longest candidate list a search collaborator returns for a topic.
MaxLen == 2

\* Largest result limit tried.
MaxK == 3

\* Largest number of topics of a run.
MaxTopics == 2

\* The slice bound written in HybridPipeline.py instead of k.
LegacyLimit == 40

\* The documents the sparse index can return, and those the dense index can.
Docs == {"d1", "d2", "d3"}
DenseDocs == {"d2", "d3"}

\* Scores of the collaborators, in tenths: 8.0, 10.0 and 0.7, 0.9.
SparseTenths == {80, 100}
DenseTenths == {7, 9}

Alphas == {<<1, 2>>, <<1, 5>>}

\* --------------------------------------------------------------- rationals

Abs(x) == IF x < 0 THEN -x ELSE x

RECURSIVE GCD(_, _)
GCD(a, b) == IF b = 0 THEN a ELSE GCD(b, a % b)

\* n/d with d > 0, in lowest terms.
Rat(n, d) ==
    LET g == GCD(Abs(n), d)
    IN  [nan |-> FALSE, n |-> n \div g, d |-> d \div g]

\* numpy's not-a-number.
NaN == [nan |-> TRUE, n |-> 0, d |-> 1]

RAdd(a, b) == IF a.nan \/ b.nan THEN NaN ELSE Rat(a.n * b.d + b.n * a.d, a.d * b.d)
RSub(a, b) == IF a.nan \/ b.nan THEN NaN ELSE Rat(a.n * b.d - b.n * a.d, a.d * b.d)
RMul(a, b) == IF a.nan \/ b.nan THEN NaN ELSE Rat(a.n * b.n, a.d * b.d)

\* a / b for b # 0.
RDiv(a, b) ==
    IF a.nan \/ b.nan THEN NaN
    ELSE IF b.n > 0 THEN Rat(a.n * b.d, a.d * b.n)
    ELSE Rat(-(a.n * b.d), a.d * (-b.n))

\* Comparisons of floats: every comparison with a NaN is false.
RLess(a, b) == ~a.nan /\ ~b.nan /\ a.n * b.d < b.n * a.d
RGeq(a, b) == ~a.nan /\ ~b.nan /\ a.n * b.d >= b.n * a.d
REq(a, b) == ~a.nan /\ ~b.nan /\ a.n * b.d = b.n * a.d

Tenths(t) == Rat(t, 10)

\* min() and max() of a non-empty set of scores.
MinOf(S) == CHOOSE x \in S : \A y \in S : RGeq(y, x)
MaxOf(S) == CHOOSE x \in S : \A y \in S : RGeq(x, y)

\* ------------------------------------------------------------ Python dicts

Range(s) == {s[i] : i \in DOMAIN s}

DictHas(d, key) == \E i \in DOMAIN d : d[i][1] = key
DictGet(d, key) == d[CHOOSE i \in DOMAIN d : d[i][1] = key][2]
DictKeys(d) == [i \in DOMAIN d |-> d[i][1]]
DictValues(d) == [i \in DOMAIN d |-> d[i][2]]

\* d[key] = v: a key already present keeps its position and takes the new
\* value; a new key goes last.
DictSet(d, key, v) ==
    IF DictHas(d, key)
    THEN [i \in DOMAIN d |-> IF d[i][1] = key THEN <<key, v>> ELSE d[i]]
    ELSE Append(d, <<key, v>>)

\* {docid: score for docid, score in pairs}
RECURSIVE DictOf(_)
DictOf(pairs) ==
    IF pairs = <<>> THEN <<>>
    ELSE LET last == pairs[Len(pairs)]
         IN  DictSet(DictOf(SubSeq(pairs, 1, Len(pairs) - 1)), last[1], last[2])

\* ------------------------------------------------------------------ fusion

\* The candidate lists of a search collaborator: at most n pairs
\* <<docid, score>> of distinct documents, best score first.
CandidateLists(docs, tenths, n) ==
    UNION {
        {l \in [1..m -> docs \X tenths] :
              /\ \A i, j \in 1..m : i < j => l[i][1] # l[j][1]
              /\ \A i, j \in 1..m : i < j => l[i][2] >= l[j][2]}
        : m \in 0..n}

\* The hits as the code reads them: docid -> score.
Hits(results) == DictOf([i \in DOMAIN results |-> <<results[i][1], Tenths(results[i][2])>>])

\* The orders in which a Python set of these elements can be iterated.
IterationOrders(S) == {p \in [1..Cardinality(S) -> S] : Range(p) = S}

\* sorted(items, key=lambda x: x[1], reverse=True): stable, so that items
\* that do not compare smaller keep their order.
RECURSIVE SortedReverse(_)
SortedReverse(items) ==
    IF items = <<>> THEN <<>>
    ELSE LET n == Len(items)
             x == items[n]
             head == SortedReverse(SubSeq(items, 1, n - 1))
             \* x goes before the first item with a smaller score
             smaller == {i \in DOMAIN head : RLess(head[i][2], x[2])}
             pos == IF smaller = {} THEN Len(head) + 1
                    ELSE CHOOSE i \in smaller : \A j \in smaller : i <= j
         IN  SubSeq(head, 1, pos - 1) \o <<x>> \o SubSeq(head, pos, Len(head))

\* seq[:limit] for limit >= 0
Slice(seq, limit) == SubSeq(seq, 1, IF limit < Len(seq) THEN limit ELSE Len(seq))

\* The limit of the final slice: hybrid_pipeline.py slices by k,
\* HybridPipeline.py by 40.
SliceLimit(v, limit) == IF v = "HybridPipeline" THEN LegacyLimit ELSE limit

min_dense_score(dense_hits) ==
    IF Len(dense_hits) > 0 THEN MinOf(Range(DictValues(dense_hits))) ELSE Rat(0, 1)
max_dense_score(dense_hits) ==
    IF Len(dense_hits) > 0 THEN MaxOf(Range(DictValues(dense_hits))) ELSE Rat(1, 1)
min_sparse_score(sparse_hits) ==
    IF Len(sparse_hits) > 0 THEN MinOf(Range(DictValues(sparse_hits))) ELSE Rat(0, 1)
max_sparse_score(sparse_hits) ==
    IF Len(sparse_hits) > 0 THEN MaxOf(Range(DictValues(sparse_hits))) ELSE Rat(1, 1)

\* The score of a document before normalization, with the side's minimum
\* for a document the side does not have.
sparse_score(doc, dense_hits, sparse_hits, min_sparse) ==
    IF ~DictHas(dense_hits, doc) THEN DictGet(sparse_hits, doc)
    ELSE IF ~DictHas(sparse_hits, doc) THEN min_sparse
    ELSE DictGet(sparse_hits, doc)

\* dense_score with the bug of imputing 0 for a document the dense side lacks.
dense_score_zero(doc, dense_hits, sparse_hits, min_dense) ==
    IF ~DictHas(dense_hits, doc) THEN Rat(0, 1)
    ELSE DictGet(dense_hits, doc)

dense_score(doc, dense_hits, sparse_hits, min_dense) ==
    IF ~DictHas(dense_hits, doc) THEN min_dense
    ELSE DictGet(dense_hits, doc)

\* The sparse scores are Python floats (pyserini): a / 0.0 raises
\* ZeroDivisionError.
SparseNormalizationRaises(min_sparse, max_sparse) == REq(max_sparse, min_sparse)

\* Normalized with the bug of min-max scaling, (score - min) / (max - min).
NormalizedMinMax(score, min, max) == RDiv(RSub(score, min), RSub(max, min))

\* (score - (min + max) / 2) / (max - min), for max # min.
Normalized(score, min, max) ==
    RDiv(RSub(score, RDiv(RAdd(min, max), Rat(2, 1))), RSub(max, min))

\* The dense scores are numpy.float32 (the distances of faiss): the
\* division by a zero range warns and gives NaN (the numerator is 0 too:
\* every score of the side equals its minimum).
NormalizedDense(score, min, max) ==
    IF REq(max, min) THEN NaN ELSE Normalized(score, min, max)

\* Combine with the bug of weighting the sparse score in both modes and
\* dropping the dense score when the weight is on it.
CombineSparseOnly(a, sparse, dense, on_dense) ==
    IF ~on_dense THEN RAdd(RMul(Rat(a[1], a[2]), sparse), dense)
    ELSE RMul(Rat(a[1], a[2]), sparse)

\* alpha * sparse + dense, or sparse + alpha * dense.
Combine(a, sparse, dense, on_dense) ==
    IF ~on_dense THEN RAdd(RMul(Rat(a[1], a[2]), sparse), dense)
    ELSE RAdd(sparse, RMul(Rat(a[1], a[2]), dense))

\* The body of the loop over the documents: the pair appended for doc.
\* range is <<min_dense, max_dense, min_sparse, max_sparse>>.
ScoredDoc(doc, dense_hits, sparse_hits, range, a, norm, on_dense) ==
    LET s == sparse_score(doc, dense_hits, sparse_hits, range[3])
        d == dense_score(doc, dense_hits, sparse_hits, range[1])
        ns == IF norm THEN Normalized(s, range[3], range[4]) ELSE s
        nd == IF norm THEN NormalizedDense(d, range[1], range[2]) ELSE d
    IN  <<doc, Combine(a, ns, nd, on_dense)>>

\* Universe with the bug of keeping only the documents both sides have.
UniverseOfCommon(dense, sparse) ==
    Range(DictKeys(Hits(dense))) \cap Range(DictKeys(Hits(sparse)))

\* The universe of a topic: set(dense_hits.keys()) | set(sparse_hits.keys()).
Universe(dense, sparse) ==
    Range(DictKeys(Hits(dense))) \cup Range(DictKeys(Hits(sparse)))

\* Python's None.
None == <<>>

\* What a call has returned or raised so far: nothing yet.  returns is
\* "tuple" for return scores, ndcg and "None" for a body that ends without
\* a return statement.
Running == [status |-> "running", exception |-> "", returns |-> "",
            scores |-> <<>>, ndcg |-> [none |-> TRUE, reports |-> <<>>]]

\* The fields __init__ leaves on a pipeline object (Pipeline.py 20-21 and
\* the index fields of the subclass); the indexes are opaque.
Constructed ==
    << <<"results_dir", "results_dir">>, <<"model_name", "hybrid">>,
       <<"sparse_index", "sparse">>, <<"dense_index", "dense">> >>

\* No DownloadFile object is part of this specification.
NoDownload == downloads = <<>>

\* No call of DocumentsIndex.search is part of this specification.
NoSearch ==
    /\ query = [list |-> TRUE, items |-> <<>>]
    /\ corpus_df = "None"

\* No run of compute_results is part of this specification.
RunIdle ==
    /\ self = Constructed
    /\ NoDownload
    /\ NoSearch
    /\ path_qrels = <<>>
    /\ fs = <<>>
    /\ questions_list = <<>>
    /\ evaluate = FALSE
    /\ clean_query = FALSE
    /\ save = FALSE
    /\ failing = "none"
    /\ queries = <<>>
    /\ calls = <<>>
    /\ results_file = [exists |-> FALSE, rows |-> <<>>]
    /\ res_path = None
    /\ mean_scores = <<>>
    /\ report_files = {}
    /\ result = Running

\* One pass of the loop over the topics: the ranking of one topic, or the
\* exception raised by the first document of the inner loop.  order is the
\* order in which the set of document ids is iterated.
RerankTopic(v, dense, sparse, a, limit, norm, on_dense, order) ==
    LET dense_hits == Hits(dense)
        sparse_hits == Hits(sparse)
        range == <<min_dense_score(dense_hits), max_dense_score(dense_hits),
                   min_sparse_score(sparse_hits), max_sparse_score(sparse_hits)>>
    IN  IF norm /\ Len(order) > 0 /\ SparseNormalizationRaises(range[3], range[4])
        THEN [status |-> "ZeroDivisionError", ranking |-> <<>>]
        ELSE [status |-> "returned",
              ranking |->
                  Slice(SortedReverse(
                            [i \in DOMAIN order |->
                                ScoredDoc(order[i], dense_hits, sparse_hits, range,
                                          a, norm, on_dense)]),
                        SliceLimit(v, limit))]

\* RerankKey with the bug of taking an empty sparse side for a key the
\* sparse results lack, sparse_results.get(key, []).
RerankKeyLenient(v, key, dense, sparse, a, limit, norm, on_dense, order) ==
    RerankTopic(v, dense, IF DictHas(sparse, key) THEN DictGet(sparse, key) ELSE <<>>,
                a, limit, norm, on_dense, order)

\* The pass of the loop for key: sparse_results[key] raises KeyError for a
\* key the sparse results lack.
RerankKey(v, key, dense, sparse, a, limit, norm, on_dense, order) ==
    IF ~DictHas(sparse, key)
    THEN [status |-> "KeyError", ranking |-> <<>>]
    ELSE RerankTopic(v, dense, DictGet(sparse, key), a, limit, norm, on_dense, order)

\* __hybrid_rerank: for key in dense_results.keys(), with sparse_results[key]
\* a KeyError for a key the sparse results lack.  orders[i] is the iteration
\* order of the set of document ids of the i-th key.  The outcome is the
\* dict key -> ranking, or the first exception raised.
RECURSIVE hybrid_rerank(_, _, _, _, _, _, _, _)
hybrid_rerank(v, dense, sparse, a, limit, norm, on_dense, orders) ==
    IF dense = <<>> THEN [status |-> "returned", value |-> <<>>]
    ELSE LET n == Len(dense)
             key == dense[n][1]
             before == hybrid_rerank(v, SubSeq(dense, 1, n - 1), sparse, a, limit,
                                     norm, on_dense, SubSeq(orders, 1, n - 1))
             topic == RerankKey(v, key, dense[n][2], sparse, a, limit, norm, on_dense,
                                orders[n])
         IN  IF before.status # "returned" THEN before
             ELSE IF topic.status # "returned"
             THEN [status |-> topic.status, value |-> <<>>]
             ELSE [status |-> "returned",
                   value |-> Append(before.value, <<key, topic.ranking>>)]

\* The iteration orders of the sets of document ids, one per key of dense.
RECURSIVE SetOrders(_, _)
SetOrders(dense, sparse) ==
    IF dense = <<>> THEN {<<>>}
    ELSE LET last == dense[Len(dense)]
             universe == IF DictHas(sparse, last[1])
                         THEN Universe(last[2], DictGet(sparse, last[1]))
                         ELSE {}
         IN  {Append(o, p) : o \in SetOrders(SubSeq(dense, 1, Len(dense) - 1), sparse),
                             p \in IterationOrders(universe)}

NotCalled == [status |-> "not called", value |-> <<>>]

\* The assembly is not part of this specification.
AssemblyIdle ==
    /\ model_name = "hybrid"
    /\ scores = <<>>
    /\ topics = <<>>
    /\ data = <<>>
    /\ res = <<>>
    /\ stage = "idle"

\* The results of both searches for a batch of one query.
FusionInit ==
    /\ AssemblyIdle
    /\ RunIdle
    /\ variant \in {"hybrid_pipeline", "HybridPipeline"}
    /\ \E l \in CandidateLists(DenseDocs, DenseTenths, MaxLen) : dense_results = <<<<"0", l>>>>
    /\ \E l \in CandidateLists(Docs, SparseTenths, MaxLen) : sparse_results = <<<<"0", l>>>>
    /\ alpha \in Alphas
    /\ k \in 0..MaxK
    /\ normalization \in BOOLEAN
    /\ weight_on_dense \in BOOLEAN
    /\ hybrid_result = NotCalled
    /\ hybrid_result_again = NotCalled

\* One invocation of __hybrid_rerank.
Fuse ==
    /\ hybrid_result.status = "not called"
    /\ \E orders \in SetOrders(dense_results, sparse_results) :
          hybrid_result' = hybrid_rerank(variant, dense_results, sparse_results, alpha, k,
                                         normalization, weight_on_dense, orders)
    /\ UNCHANGED <<variant, dense_results, sparse_results, alpha, k, normalization,
                   weight_on_dense, hybrid_result_again>>
    /\ UNCHANGED <<assemblyVars, runVars>>

\* The same invocation in another run of the program (another hash seed,
\* hence another iteration order of the set).
FuseAgain ==
    /\ hybrid_result.status # "not called"
    /\ hybrid_result_again.status = "not called"
    /\ \E orders \in SetOrders(dense_results, sparse_results) :
          hybrid_result_again' = hybrid_rerank(variant, dense_results, sparse_results, alpha,
                                               k, normalization, weight_on_dense, orders)
    /\ UNCHANGED <<variant, dense_results, sparse_results, alpha, k, normalization,
                   weight_on_dense, hybrid_result>>
    /\ UNCHANGED <<assemblyVars, runVars>>

FusionNext == Fuse

\* The fusion step on every input within the bounds.
SpecFusion == FusionInit /\ [][FusionNext]_vars

FusionTwiceNext == Fuse \/ FuseAgain

\* The fusion step invoked twice on the same input.
SpecFusionTwice == FusionInit /\ [][FusionTwiceNext]_vars

\* Most keys in the results of a search.
MaxKeys == 2

\* The candidate lists of a key in results whose key sets may differ.
KeyedDense == {<<>>, <<<<"d2", 9>>>>, <<<<"d2", 9>>, <<"d3", 7>>>>}
KeyedSparse == {<<>>, <<<<"d1", 100>>>>, <<<<"d1", 100>>, <<"d2", 80>>>>}

\* str of the i-th smallest of a set of positions.
PositionalKeyOf(keys, i) ==
    ToString(CHOOSE x \in keys : Cardinality({y \in keys : y < x}) = i - 1)

\* The mappings with a subset of the positional keys, in ascending order,
\* each key with one of the lists.
KeyedResults(lists) ==
    UNION {
        {[i \in 1..Cardinality(keys) |->
            <<PositionalKeyOf(keys, i), chosen[i]>>] : chosen \in [1..Cardinality(keys) -> lists]}
        : keys \in SUBSET (0..(MaxKeys - 1))}

\* __hybrid_rerank called with results whose key sets need not agree.
FusionKeysInit ==
    /\ AssemblyIdle
    /\ RunIdle
    /\ variant \in {"hybrid_pipeline", "HybridPipeline"}
    /\ dense_results \in KeyedResults(KeyedDense)
    /\ sparse_results \in KeyedResults(KeyedSparse)
    /\ alpha = <<1, 2>>
    /\ k = MaxK
    /\ normalization \in BOOLEAN
    /\ weight_on_dense = FALSE
    /\ hybrid_result = NotCalled
    /\ hybrid_result_again = NotCalled

FusionKeysNext == Fuse

\* The fusion step on results with any key sets within the bounds.
SpecFusionKeys == FusionKeysInit /\ [][FusionKeysNext]_vars

\* ---------------------------------------------------------------- assembly

AssemblyDocs == {"d1", "d2"}
AssemblyTenths == {80, 100}
TopicIds == {1, 7, 12}

\* str(i): the key under which a collaborator files the results of the
\* i-th query of a batch.
PositionalKey(i) == ToString(i)

\* int(key) of such a key.
IntOf(key) == CHOOSE i \in 0..(MaxTopics + 1) : ToString(i) = key

\* The topic lists __read_topics returns: distinct ids, ascending.
TopicLists ==
    {l \in UNION {[1..m -> TopicIds] : m \in 0..MaxTopics} :
        \A i, j \in DOMAIN l : i < j => l[i] < l[j]}

\* Candidate lists in which a document id may repeat, best score first.
RepeatingLists(n) ==
    UNION {
        {l \in [1..m -> AssemblyDocs \X AssemblyTenths] :
              \A i, j \in 1..m : i < j => l[i][2] >= l[j][2]}
        : m \in 0..n}

\* What a search over n queries returns: keys "0" .. "n-1", in this order.
SearchResults(n) ==
    {[i \in 1..n |-> <<PositionalKey(i - 1), lists[i]>>] :
        lists \in [1..n -> RepeatingLists(MaxLen)]}

\* TopicOf with the bug of taking the positional key itself as the topic.
TopicOfLiteralKey(tp, key) == IntOf(key)

\* topics[int(key)]
TopicOf(tp, key) == tp[IntOf(key) + 1]

\* ScoresEntry with the bug of listing the pairs as they come, a repeated
\* document included.
ScoresEntryOfList(pairs) == [ids |-> DictKeys(pairs), scores |-> DictValues(pairs)]

\* ScoresEntry with the bug of keeping the first candidate only.
ScoresEntryOfFirst(pairs) ==
    LET new_dict == DictOf(pairs)
        n == IF Len(new_dict) > 0 THEN 1 ELSE 0
    IN  [ids |-> SubSeq(DictKeys(new_dict), 1, n), scores |-> SubSeq(DictValues(new_dict), 1, n)]

\* {'ids': list(new_dict.keys()), 'scores': list(new_dict.values())}
ScoresEntry(pairs) ==
    LET new_dict == DictOf(pairs)
    IN  [ids |-> DictKeys(new_dict), scores |-> DictValues(new_dict)]

\* __create_scores_dict, for keys that index the topic list.
RECURSIVE create_scores_dict(_, _)
create_scores_dict(sc, tp) ==
    IF sc = <<>> THEN <<>>
    ELSE LET last == sc[Len(sc)]
         IN  DictSet(create_scores_dict(SubSeq(sc, 1, Len(sc) - 1), tp),
                     TopicOf(tp, last[1]), ScoresEntry(last[2]))

\* Row with the bug of a rank that counts from 0.
RowRankFromZero(key, entry, i, name) ==
    [topic |-> ToString(key), Q0 |-> "Q0", doc |-> entry.ids[i + 1],
     rank |-> i, score |-> entry.scores[i + 1], tag |-> name]

\* The row of save_trec for index i (from 0) of the topic under key.
Row(key, entry, i, name) ==
    [topic |-> ToString(key), Q0 |-> "Q0", doc |-> entry.ids[i + 1],
     rank |-> i + 1, score |-> entry.scores[i + 1], tag |-> name]

\* for i in range(len(data[key]['ids'])): one row appended per i.
TopicRows(key, entry, name) ==
    [j \in 1..Len(entry.ids) |-> Row(key, entry, j - 1, name)]

\* The table save_trec builds: the rows of each key of data, in the order
\* of the keys.
RECURSIVE save_trec(_, _)
save_trec(d, name) ==
    IF d = <<>> THEN <<>>
    ELSE LET last == d[Len(d)]
         IN  save_trec(SubSeq(d, 1, Len(d) - 1), name) \o TopicRows(last[1], last[2], name)

\* The entries a caller of save_trec may pass for one topic: distinct
\* document ids, scores in any order.
GivenEntries ==
    UNION {
        {[ids |-> i, scores |-> s] :
            i \in {l \in [1..m -> AssemblyDocs] : \A a, b \in 1..m : a < b => l[a] # l[b]},
            s \in [1..m -> AssemblyTenths]}
        : m \in 0..MaxLen}

GivenData ==
    UNION {
        {[j \in DOMAIN tl |-> <<tl[j], e[j]>>] : e \in [DOMAIN tl -> GivenEntries]}
        : tl \in TopicLists}

\* The fusion step is not part of this specification.
FusionIdle ==
    /\ variant = "hybrid_pipeline"
    /\ dense_results = <<>>
    /\ sparse_results = <<>>
    /\ alpha = <<1, 5>>
    /\ k = 0
    /\ normalization = FALSE
    /\ weight_on_dense = FALSE
    /\ hybrid_result = NotCalled
    /\ hybrid_result_again = NotCalled

\* Either the pipeline holds the results of a search and the topics, or a
\* caller holds the data it is about to pass to save_trec.
AssemblyInit ==
    /\ FusionIdle
    /\ RunIdle
    /\ model_name = "hybrid"
    /\ res = <<>>
    /\ \/ /\ stage = "start"
          /\ topics \in TopicLists
          /\ scores \in SearchResults(Len(topics))
          /\ data = <<>>
       \/ /\ stage = "given"
          /\ topics = <<>>
          /\ scores = <<>>
          /\ data \in GivenData

CreateScoresDict ==
    /\ stage = "start"
    /\ data' = create_scores_dict(scores, topics)
    /\ stage' = "scored"
    /\ UNCHANGED <<model_name, scores, topics, res>>
    /\ UNCHANGED <<fusionVars, runVars>>

SaveTrec ==
    /\ stage \in {"scored", "given"}
    /\ res' = save_trec(data, model_name)
    /\ stage' = "saved"
    /\ UNCHANGED <<model_name, scores, topics, data>>
    /\ UNCHANGED <<fusionVars, runVars>>

AssemblyNext == CreateScoresDict \/ SaveTrec

\* The assembly on every input within the bounds.
SpecAssembly == AssemblyInit /\ [][AssemblyNext]_vars

\* ----------------------------------------------------------------- strings

\* string.punctuation, character by character; "grave" stands for the
\* grave accent, which a TLA+ string cannot hold.
Punctuation ==
    {"!", "\"", "#", "$", "%", "&", "'", "(", ")", "*", "+", ",", "-", ".", "/",
     ":", ";", "<", "=", ">", "?", "@", "[", "\\", "]", "^", "_", "grave", "{", "|",
     "}", "~"}

\* q.translate(str.maketrans(string.punctuation, ' '*len(string.punctuation)))
Translate(q) == [i \in DOMAIN q |-> IF q[i] \in Punctuation THEN " " ELSE q[i]]

\* re.sub(' +', ' ', clean): every maximal run of spaces becomes one space.
RECURSIVE CollapseSpaces(_)
CollapseSpaces(s) ==
    IF s = <<>> THEN <<>>
    ELSE LET n == Len(s)
             front == CollapseSpaces(SubSeq(s, 1, n - 1))
         IN  IF s[n] = " " /\ n > 1 /\ s[n - 1] = " " THEN front
             ELSE Append(front, s[n])

\* remove_punctuation with the bug of stripping the ends of the query.
RECURSIVE Strip(_)
Strip(s) ==
    IF s # <<>> /\ s[1] = " " THEN Strip(Tail(s))
    ELSE IF s # <<>> /\ s[Len(s)] = " " THEN Strip(SubSeq(s, 1, Len(s) - 1))
    ELSE s

remove_punctuation_strip(qs) ==
    [i \in DOMAIN qs |-> Strip(CollapseSpaces(Translate(qs[i])))]

\* __remove_punctuation of a list of queries.
remove_punctuation(qs) == [i \in DOMAIN qs |-> CollapseSpaces(Translate(qs[i]))]

\* os.path.split(path)[1]: what follows the last "/".
PathTail(path) ==
    LET slashes == {i \in DOMAIN path : path[i] = "/"}
    IN  IF slashes = {} THEN path
        ELSE SubSeq(path, (CHOOSE i \in slashes : \A j \in slashes : j <= i) + 1, Len(path))

\* name.split('.')[0]: what precedes the first ".".
BeforeFirstDot(name) ==
    LET dots == {i \in DOMAIN name : name[i] = "."}
    IN  IF dots = {} THEN name
        ELSE SubSeq(name, 1, (CHOOSE i \in dots : \A j \in dots : i <= j) - 1)

\* qrel_name = os.path.split(qrel)[1].split('.')[0]
QrelName(path) == BeforeFirstDot(PathTail(path))

\* --------------------------------------------------- compute_results, run

\* Longest topic column of a ground-truth file.
MaxRows == 2

\* The default of k_end, the limit compute_results passes to __hybrid_rerank.
k_end == 40

\* The depth compute_results passes to evaluate.
Depth == 5

\* The values found in the topic column of the first ground-truth file.
TopicValues == {-1, 0, 1, 2, 3}

\* "f.q" and "l.q"
FirstPath == <<"f", ".", "q">>
LaterPath == <<"l", ".", "q">>

Missing == [exists |-> FALSE, column |-> <<>>]
File(column) == [exists |-> TRUE, column |-> column]

FirstFiles ==
    {Missing} \cup {File(c) : c \in UNION {[1..m -> TopicValues] : m \in 1..MaxRows}}
LaterFiles == {Missing, File(<<1>>), File(<<3>>)}

\* "a? b" and "c,"
Questions == << <<"a", "?", " ", "b">>, <<"c", ",">> >>

\* What the collaborators return for one query; a collaborator may return
\* a document more than once.
RunSparseLists == {<<>>, <<<<"d1", 100>>, <<"d2", 80>>>>, <<<<"d1", 100>>, <<"d1", 80>>>>}
RunDenseLists == {<<>>, <<<<"d2", 9>>>>, <<<<"d2", 9>>, <<"d2", 7>>>>}

\* A search over n queries: keys "0" .. "n-1", each with one of the lists.
RunSearch(lists, n) ==
    {[i \in 1..n |-> <<PositionalKey(i - 1), chosen[i]>>] : chosen \in [1..n -> lists]}

\* __read_topics with the bug of returning the column as it is read.
read_topics_column(file) == file.column

\* sorted(topics['topic'].unique())
RECURSIVE Ascending(_)
Ascending(S) ==
    IF S = {} THEN <<>>
    ELSE LET least == CHOOSE x \in S : \A y \in S : x <= y
         IN  <<least>> \o Ascending(S \ {least})

read_topics(file) == Ascending(Range(file.column))

\* list[i] of Python: an index below 0 counts from the end, an index out of
\* range raises IndexError.
IndexInRange(list, i) == -Len(list) <= i /\ i < Len(list)
Item(list, i) == IF i >= 0 THEN list[i + 1] ELSE list[Len(list) + i + 1]

\* The classes with a compute_results, named by their files.
Pipelines ==
    {"SparsePipeline", "dense_pipeline", "hybrid_pipeline", "HybridPipeline",
     "monot5_pipeline", "CombinationPipeline"}

\* The first search of compute_results.
FirstSearch(v) == IF v = "dense_pipeline" THEN "dense_search" ELSE "sparse_search"

\* StageAfter with the bug of evaluating before the results file is written.
StageAfterEvaluateFirst(v, s, clean, eval) ==
    CASE s = "check_filepath" -> "read_topics"
      [] s = "read_topics" -> "resolve_queries"
      [] s = "resolve_queries" ->
            IF clean /\ v # "CombinationPipeline" THEN "clean_queries" ELSE FirstSearch(v)
      [] s = "clean_queries" -> FirstSearch(v)
      [] s = "sparse_search" ->
            IF v = "SparsePipeline" THEN "create_scores_dict"
            ELSE IF v = "monot5_pipeline" THEN "reranking"
            ELSE "dense_search"
      [] s = "dense_search" ->
            IF v = "dense_pipeline" THEN "create_scores_dict"
            ELSE IF v = "CombinationPipeline" THEN "combine_scores"
            ELSE "hybrid_rerank"
      [] s = "hybrid_rerank" -> "create_scores_dict"
      [] s = "reranking" -> "create_scores_dict"
      [] s = "combine_scores" -> "save_trec"
      [] s = "create_scores_dict" ->
            IF eval /\ v # "CombinationPipeline" THEN "evaluate" ELSE "save_trec"
      [] s = "save_trec" -> IF eval /\ v # "CombinationPipeline" THEN "evaluate" ELSE "done"
      [] s = "evaluate" -> "compute_ndcg"
      [] s = "compute_ndcg" -> "done"

\* The statement that follows statement s in compute_results of v when s
\* neither raises nor returns.
StageAfter(v, s, clean, eval) ==
    CASE s = "check_filepath" -> "read_topics"
      [] s = "read_topics" -> "resolve_queries"
      [] s = "resolve_queries" ->
            IF clean /\ v # "CombinationPipeline" THEN "clean_queries" ELSE FirstSearch(v)
      [] s = "clean_queries" -> FirstSearch(v)
      [] s = "sparse_search" ->
            IF v = "SparsePipeline" THEN "create_scores_dict"
            ELSE IF v = "monot5_pipeline" THEN "reranking"
            ELSE "dense_search"
      [] s = "dense_search" ->
            IF v = "dense_pipeline" THEN "create_scores_dict"
            ELSE IF v = "CombinationPipeline" THEN "combine_scores"
            ELSE "hybrid_rerank"
      [] s = "hybrid_rerank" -> "create_scores_dict"
      [] s = "reranking" -> "create_scores_dict"
      [] s = "combine_scores" -> "save_trec"
      [] s = "create_scores_dict" -> "save_trec"
      [] s = "save_trec" -> IF eval /\ v # "CombinationPipeline" THEN "evaluate" ELSE "done"
      [] s = "evaluate" -> "compute_ndcg"
      [] s = "compute_ndcg" -> "done"

\* The ground-truth files of a run of any pipeline.
PipelineFirstFiles == {Missing, File(<<1>>), File(<<2, 1, 2>>)}
PipelineLaterFiles == {Missing, File(<<1, 3>>)}

\* The collaborators that can raise.
Collaborators ==
    {"sparse_index.search", "dense_index.search", "monot5.rerank", "compute_ndcg", "to_csv"}

\* compute_results of v, with evaluate as given, has a call of c.
Uses(v, c, eval) ==
    CASE c = "sparse_index.search" -> v # "dense_pipeline"
      [] c = "dense_index.search" ->
            v \in {"dense_pipeline", "hybrid_pipeline", "HybridPipeline", "CombinationPipeline"}
      [] c = "monot5.rerank" -> v = "monot5_pipeline"
      [] c = "compute_ndcg" -> eval
      [] c = "to_csv" -> TRUE

\* What is the same at the start of every run.
RunStart ==
    /\ self = Constructed
    /\ NoDownload
    /\ NoSearch
    /\ model_name = "hybrid"
    /\ questions_list = Questions
    /\ save = FALSE        \* compute_results passes save=False to evaluate
    /\ alpha = <<1, 5>>
    /\ normalization = FALSE
    /\ weight_on_dense = FALSE
    /\ dense_results = <<>>
    /\ sparse_results = <<>>
    /\ hybrid_result = NotCalled
    /\ hybrid_result_again = NotCalled
    /\ scores = <<>>
    /\ topics = <<>>
    /\ data = <<>>
    /\ res = <<>>
    /\ queries = <<>>
    /\ calls = <<>>
    /\ results_file = [exists |-> FALSE, rows |-> <<>>]
    /\ res_path = None
    /\ mean_scores = <<>>
    /\ report_files = {}
    /\ result = Running
    /\ stage = "check_filepath"

RunInit ==
    /\ RunStart
    /\ variant \in {"SparsePipeline", "hybrid_pipeline"}
    /\ path_qrels \in {<<FirstPath>>, <<FirstPath, LaterPath>>}
    /\ \E first \in FirstFiles, later \in LaterFiles :
          fs = <<<<FirstPath, first>>, <<LaterPath, later>>>>
    /\ evaluate \in BOOLEAN
    /\ clean_query = FALSE
    /\ failing = "none"
    /\ k \in IF variant = "hybrid_pipeline" THEN {1, k_end} ELSE {k_end}

\* CombinationPipeline.compute_results has neither clean_query nor evaluate.
PipelinesInit ==
    /\ RunStart
    /\ variant \in Pipelines
    /\ path_qrels \in {<<FirstPath>>, <<FirstPath, LaterPath>>}
    /\ \E first \in PipelineFirstFiles, later \in PipelineLaterFiles :
          fs = <<<<FirstPath, first>>, <<LaterPath, later>>>>
    /\ evaluate \in IF variant = "CombinationPipeline" THEN {FALSE} ELSE BOOLEAN
    /\ clean_query \in IF variant = "CombinationPipeline" THEN {FALSE} ELSE BOOLEAN
    /\ failing \in {"none"} \cup {c \in Collaborators : Uses(variant, c, evaluate)}
    /\ k \in IF variant = "hybrid_pipeline" THEN {1, k_end} ELSE {k_end}

Raise(exception) ==
    /\ result' = [Running EXCEPT !.status = "raised", !.exception = exception]
    /\ stage' = "done"

\* return scores, ndcg
Return(ndcg) ==
    /\ result' = [Running EXCEPT !.status = "returned", !.returns = "tuple",
                                 !.scores = data, !.ndcg = ndcg]
    /\ stage' = "done"

\* return mean_scores
ReturnMeanScores(reports) ==
    /\ result' = [Running EXCEPT !.status = "returned", !.returns = "mean_scores",
                                 !.ndcg = [none |-> FALSE, reports |-> reports]]
    /\ stage' = "done"

\* The end of a body without a return statement.
ReturnNothing ==
    /\ result' = [Running EXCEPT !.status = "returned", !.returns = "None"]
    /\ stage' = "done"

Proceed == stage' = StageAfter(variant, stage, clean_query, evaluate)

\* __check_filepath with the bug of checking the first path only.
first_path_exists(filepaths, files) == DictGet(files, filepaths[1]).exists

\* for path in filepaths: assert os.path.exists(path)
check_filepath(filepaths, files) ==
    \A i \in DOMAIN filepaths : DictGet(files, filepaths[i]).exists

\* The fields of the object after the check of the paths has passed:
\* CombinationPipeline keeps the paths, self.path_qrels = path_qrels.
FieldsAfterCheck(v, fields, paths) ==
    IF v = "CombinationPipeline" THEN DictSet(fields, "path_qrels", paths) ELSE fields

\* self._Pipeline__check_filepath(path_qrels)
CheckFilepath ==
    /\ stage = "check_filepath"
    /\ IF check_filepath(path_qrels, fs)
       THEN Proceed /\ UNCHANGED result
                    /\ self' = FieldsAfterCheck(variant, self, path_qrels)
       ELSE Raise("AssertionError") /\ UNCHANGED self
    /\ UNCHANGED <<fusionVars, assemblyData, runInputs, downloads, query, corpus_df,
                   queries, calls,
                   results_file, evaluateVars>>

\* topics = self._Pipeline__read_topics(path_qrels[0]), or of path_qrels
\* itself when it is a str.  CombinationPipeline passes path_qrels as it is:
\* pandas raises ValueError for a list.
ReadTopics ==
    /\ stage = "read_topics"
    /\ IF variant = "CombinationPipeline" /\ Len(path_qrels) > 1
       THEN Raise("ValueError") /\ UNCHANGED topics
       ELSE /\ topics' = read_topics(DictGet(fs, path_qrels[1]))
            /\ Proceed
            /\ UNCHANGED result
    /\ UNCHANGED <<fusionVars, model_name, scores, data, res>>
    /\ UNCHANGED <<runInputs, objectVars, queries, calls, results_file, evaluateVars>>

\* queries = [questions_list[ind-1] for ind in topics]
ResolveQueries ==
    /\ stage = "resolve_queries"
    /\ IF \A i \in DOMAIN topics : IndexInRange(questions_list, topics[i] - 1)
       THEN /\ queries' = [i \in DOMAIN topics |-> Item(questions_list, topics[i] - 1)]
            /\ Proceed
            /\ UNCHANGED result
       ELSE /\ Raise("IndexError")
            /\ UNCHANGED queries
    /\ UNCHANGED <<fusionVars, assemblyData, runInputs, objectVars, calls, results_file, evaluateVars>>

\* if clean_query: queries = self._Pipeline__remove_punctuation(queries).
\* HybridPipeline.py calls self._Pipeline__clean_queries, which Pipeline
\* does not define.
CleanQueries ==
    /\ stage = "clean_queries"
    /\ IF variant = "HybridPipeline"
       THEN Raise("AttributeError") /\ UNCHANGED queries
       ELSE /\ queries' = remove_punctuation(queries)
            /\ Proceed
            /\ UNCHANGED result
    /\ UNCHANGED <<fusionVars, assemblyData, runInputs, objectVars, calls, results_file, evaluateVars>>

fusionArgs == <<variant, alpha, k, normalization, weight_on_dense>>

Call(collaborator, args) == [collaborator |-> collaborator, args |-> args]

\* sparse_results = self.sparse_index.search(queries, k=k)
SparseSearch ==
    /\ stage = "sparse_search"
    /\ calls' = Append(calls, Call("sparse_index.search", queries))
    /\ IF failing = "sparse_index.search"
       THEN Raise("CollaboratorFailure") /\ UNCHANGED sparse_results
       ELSE /\ sparse_results' \in RunSearch(RunSparseLists, Len(queries))
            /\ Proceed
            /\ UNCHANGED result
    /\ UNCHANGED <<fusionArgs, dense_results, hybrid_result, hybrid_result_again>>
    /\ UNCHANGED <<assemblyData, runInputs, objectVars, queries, results_file, evaluateVars>>

\* dense_results = self.dense_index.search(queries, k=k, corpus_df=corpus_df)
DenseSearch ==
    /\ stage = "dense_search"
    /\ calls' = Append(calls, Call("dense_index.search", queries))
    /\ IF failing = "dense_index.search"
       THEN Raise("CollaboratorFailure") /\ UNCHANGED dense_results
       ELSE /\ dense_results' \in RunSearch(RunDenseLists, Len(queries))
            /\ Proceed
            /\ UNCHANGED result
    /\ UNCHANGED <<fusionArgs, sparse_results, hybrid_result, hybrid_result_again>>
    /\ UNCHANGED <<assemblyData, runInputs, objectVars, queries, results_file, evaluateVars>>

\* hybrid_results = self.__hybrid_rerank(dense_results, sparse_results, alpha, k_end, ...)
HybridRerank ==
    /\ stage = "hybrid_rerank"
    /\ \E orders \in SetOrders(dense_results, sparse_results) :
          /\ hybrid_result' = hybrid_rerank(variant, dense_results, sparse_results, alpha, k,
                                            normalization, weight_on_dense, orders)
          /\ IF hybrid_result'.status = "returned"
             THEN Proceed /\ UNCHANGED result
             ELSE Raise(hybrid_result'.status)
    /\ UNCHANGED <<fusionArgs, dense_results, sparse_results, hybrid_result_again>>
    /\ UNCHANGED <<assemblyData, runInputs, objectVars, queries, calls, results_file, evaluateVars>>

\* reranked_results = self.__reranking(queries, corpus_df, sparse_results):
\* three arguments for the four parameters topics_idx, queries, corpus_df,
\* results.  The call raises TypeError before the body runs, so that
\* self.monot5.rerank is never called.
Reranking ==
    /\ stage = "reranking"
    /\ Raise("TypeError")
    /\ UNCHANGED <<fusionVars, assemblyData, runInputs, objectVars, queries, calls, results_file,
                   evaluateVars>>

\* {docid: score*weight for docid, score in hits}
Weighted(hits, weight) ==
    DictOf([i \in DOMAIN hits |-> <<hits[i][1], RMul(Tenths(hits[i][2]), weight)>>])

\* sparse.keys() & dense.keys()
Common(sparse_hits, dense_hits) ==
    Range(DictKeys(Weighted(sparse_hits, Rat(2, 5)))) \cap
    Range(DictKeys(Weighted(dense_hits, Rat(3, 5))))

\* The body of the loop of __combine_scores: the entry of one key.  order
\* is the order in which the set common is iterated.
CombinedEntry(sparse_hits, dense_hits, order) ==
    LET sparse == Weighted(sparse_hits, Rat(2, 5))
        dense == Weighted(dense_hits, Rat(3, 5))
        new_scores == SortedReverse(
            [i \in DOMAIN order |->
                <<order[i], RAdd(DictGet(sparse, order[i]), DictGet(dense, order[i]))>>])
    IN  [ids |-> DictKeys(new_scores), scores |-> DictValues(new_scores)]

\* __combine_scores: for key in sparse_scores.keys(), the entry goes under
\* topics[int(key)].  Every key of sparse_scores is a key of dense_scores.
RECURSIVE combine_scores(_, _, _, _)
combine_scores(sparse_scores, dense_scores, tp, orders) ==
    IF sparse_scores = <<>> THEN <<>>
    ELSE LET n == Len(sparse_scores)
             key == sparse_scores[n][1]
         IN  DictSet(combine_scores(SubSeq(sparse_scores, 1, n - 1), dense_scores, tp,
                                    SubSeq(orders, 1, n - 1)),
                     TopicOf(tp, key),
                     CombinedEntry(sparse_scores[n][2], DictGet(dense_scores, key), orders[n]))

\* The iteration orders of the sets common, one per key of sparse_scores.
RECURSIVE CommonOrders(_, _)
CommonOrders(sparse_scores, dense_scores) ==
    IF sparse_scores = <<>> THEN {<<>>}
    ELSE LET n == Len(sparse_scores)
             common == Common(sparse_scores[n][2], DictGet(dense_scores, sparse_scores[n][1]))
         IN  {Append(o, p) : o \in CommonOrders(SubSeq(sparse_scores, 1, n - 1), dense_scores),
                             p \in IterationOrders(common)}

\* comp_rank = self.__combine_scores(sparse_results, dense_results, topics)
CombineScores ==
    /\ stage = "combine_scores"
    /\ \E orders \in CommonOrders(sparse_results, dense_results) :
          data' = combine_scores(sparse_results, dense_results, topics, orders)
    /\ Proceed
    /\ UNCHANGED <<fusionVars, model_name, scores, topics, res, runVars>>

\* self._Pipeline__create_scores_dict(results, topics) of the results of the
\* search, or of the fusion.
RunCreateScoresDict ==
    /\ stage = "create_scores_dict"
    /\ scores' = IF variant = "SparsePipeline" THEN sparse_results
                 ELSE IF variant = "dense_pipeline" THEN dense_results
                 ELSE hybrid_result.value
    /\ data' = create_scores_dict(scores', topics)
    /\ Proceed
    /\ UNCHANGED <<fusionVars, model_name, topics, res, runVars>>

\* os.path.join(self.results_dir, self.model_name + "_results.qrels")
results_path(name) == <<"results_dir", name, "_results.qrels">>

\* The path save_trec returns, with the bug of never assigning it.
saved_path_unassigned(save_file, name) == None

\* The path save_trec returns: None unless save.
saved_path(save_file, name) == IF save_file THEN results_path(name) ELSE None

\* trec_data, res_path = self.save_trec(scores, save=True): the table is
\* built, then written by to_csv, which raises OSError when it cannot
\* open the file.
RunSaveTrec ==
    /\ stage = "save_trec"
    /\ res' = save_trec(data, model_name)
    /\ IF failing = "to_csv"
       THEN Raise("OSError") /\ UNCHANGED <<results_file, res_path>>
       ELSE /\ results_file' = [exists |-> TRUE, rows |-> res']
            /\ res_path' = saved_path(TRUE, model_name)
            /\ IF variant = "CombinationPipeline" THEN ReturnNothing
               ELSE IF evaluate THEN Proceed /\ UNCHANGED result
               ELSE Return([none |-> TRUE, reports |-> <<>>])
    /\ UNCHANGED <<fusionVars, model_name, scores, topics, data>>
    /\ UNCHANGED <<runInputs, objectVars, queries, calls, mean_scores, report_files>>

\* os.path.exists(res_path)
ResultsExist == res_path = results_path(model_name) /\ results_file.exists

\* if res_path: ndcg = self.evaluate(path_qrels, res_path, 5, False), up to
\* the loop of evaluate.  HybridPipeline.py calls evaluate without the test
\* of res_path; os.path.exists(None) raises TypeError.
Evaluate ==
    /\ stage = "evaluate"
    /\ IF res_path = None /\ variant \notin {"HybridPipeline", "Pipeline.evaluate"}
       THEN \* the error is printed and scores, None returned
            Return([none |-> TRUE, reports |-> <<>>])
       ELSE IF ~check_filepath(path_qrels, fs)
       THEN Raise("AssertionError")
       ELSE IF res_path = None
       THEN Raise("TypeError")
       ELSE IF ~ResultsExist
       THEN Raise("AssertionError")
       ELSE Proceed /\ UNCHANGED result
    /\ mean_scores' = <<>>
    /\ UNCHANGED <<fusionVars, assemblyData, runInputs, objectVars, queries, calls, results_file,
                   res_path, report_files>>

NdcgCalls == SelectSeq(calls, LAMBDA c : c.collaborator = "compute_ndcg")

\* os.path.join(self.results_dir, f"{self.model_name}_{qrel_name}_ndcg{depth}.csv")
ndcg_path(name, qrel_name, depth) == <<"results_dir", name, qrel_name, "ndcg", depth, ".csv">>

\* One pass of the loop of evaluate, for the next qrel of qrel_paths:
\*     mean_scores[qrel_name] = compute_ndcg(qrel, res_path, depth)
\*     if save: mean_scores[qrel_name].to_csv(ndcg_path, ...)
\* and return mean_scores after the last one.  A direct call returns
\* mean_scores, compute_results returns scores, ndcg.
ComputeNdcg ==
    /\ stage = "compute_ndcg"
    /\ LET qrel == path_qrels[Len(NdcgCalls) + 1]
           qrel_name == QrelName(qrel)
           report == [qrel |-> qrel, results |-> res_path, depth |-> Depth]
       IN  /\ calls' = Append(calls, Call("compute_ndcg", <<qrel, res_path, Depth>>))
           /\ \E raises \in IF failing = "compute_ndcg" THEN BOOLEAN ELSE {FALSE} :
                 IF raises
                 THEN Raise("CollaboratorFailure") /\ UNCHANGED <<mean_scores, report_files>>
                 ELSE /\ mean_scores' = DictSet(mean_scores, qrel_name, report)
                      /\ report_files' =
                            IF save THEN report_files \cup {ndcg_path(model_name, qrel_name, Depth)}
                            ELSE report_files
                      /\ IF Len(NdcgCalls) + 1 < Len(path_qrels)
                         THEN UNCHANGED <<stage, result>>
                         ELSE IF variant = "Pipeline.evaluate"
                         THEN ReturnMeanScores(mean_scores')
                         ELSE Return([none |-> FALSE, reports |-> mean_scores'])
    /\ UNCHANGED <<fusionVars, assemblyData, runInputs, objectVars, queries, results_file, res_path>>

RunNext ==
    \/ CheckFilepath
    \/ ReadTopics
    \/ ResolveQueries
    \/ SparseSearch
    \/ DenseSearch
    \/ HybridRerank
    \/ RunCreateScoresDict
    \/ RunSaveTrec
    \/ Evaluate
    \/ ComputeNdcg

\* Runs of compute_results of the sparse and of the hybrid pipeline.
SpecRun == RunInit /\ [][RunNext]_vars

\* Runs of SparsePipeline.compute_results on every first ground-truth file
\* within the bounds.
SparseInit ==
    /\ RunStart
    /\ variant = "SparsePipeline"
    /\ path_qrels \in {<<FirstPath>>, <<FirstPath, LaterPath>>}
    /\ \E first \in FirstFiles, later \in LaterFiles :
          fs = <<<<FirstPath, first>>, <<LaterPath, later>>>>
    /\ evaluate \in BOOLEAN
    /\ clean_query \in BOOLEAN
    /\ failing = "none"
    /\ k = k_end

SparseNext ==
    \/ CheckFilepath
    \/ ReadTopics
    \/ ResolveQueries
    \/ CleanQueries
    \/ SparseSearch
    \/ RunCreateScoresDict
    \/ RunSaveTrec
    \/ Evaluate
    \/ ComputeNdcg

SpecSparse == SparseInit /\ [][SparseNext]_vars

PipelinesNext ==
    \/ RunNext
    \/ CleanQueries
    \/ Reranking
    \/ CombineScores

\* Runs of compute_results of every pipeline, with and without a
\* collaborator that raises.
SpecPipelines == PipelinesInit /\ [][PipelinesNext]_vars

\* -------------------------------------------------- evaluate, called alone

\* No fusion takes part; v is the code that runs.
FusionUnused(v) ==
    /\ variant = v
    /\ dense_results = <<>>
    /\ sparse_results = <<>>
    /\ alpha = <<1, 5>>
    /\ k = k_end
    /\ normalization = FALSE
    /\ weight_on_dense = FALSE
    /\ hybrid_result = NotCalled
    /\ hybrid_result_again = NotCalled

\* Longest list of ground-truth paths given to evaluate.
MaxPaths == 2

\* "a/t.q", "b/t.q", "u.q" and "u.v.q"
EvalPaths ==
    { <<"a", "/", "t", ".", "q">>, <<"b", "/", "t", ".", "q">>,
      <<"u", ".", "q">>, <<"u", ".", "v", ".", "q">> }

\* The files of a set of paths, all of them present but the missing ones.
FilesOf(paths, missing) ==
    LET order == CHOOSE p \in [1..Cardinality(paths) -> paths] : Range(p) = paths
    IN  [i \in DOMAIN order |->
            <<order[i], IF order[i] \in missing THEN Missing ELSE File(<<1>>)>>]

\* A caller of evaluate(qrel_paths, res_path, depth, save): the results
\* file was written by an earlier save_trec, or was not.
EvaluateInit ==
    /\ FusionUnused("Pipeline.evaluate")
    /\ self = Constructed
    /\ NoDownload
    /\ NoSearch
    /\ model_name = "hybrid"
    /\ scores = <<>>
    /\ topics = <<>>
    /\ data = <<>>
    /\ res = <<>>
    /\ stage = "evaluate"
    /\ path_qrels \in UNION {[1..n -> EvalPaths] : n \in 1..MaxPaths}
    /\ \E missing \in {{}} \cup {{p} : p \in EvalPaths} : fs = FilesOf(EvalPaths, missing)
    /\ questions_list = <<>>
    /\ evaluate = TRUE
    /\ clean_query = FALSE
    /\ save \in BOOLEAN
    /\ failing \in {"none", "compute_ndcg"}
    /\ queries = <<>>
    /\ calls = <<>>
    /\ results_file \in {[exists |-> e, rows |-> <<>>] : e \in BOOLEAN}
    /\ res_path = results_path(model_name)
    /\ mean_scores = <<>>
    /\ report_files = {}
    /\ result = Running

EvaluateNext == Evaluate \/ ComputeNdcg

\* Calls of evaluate on every input within the bounds.
SpecEvaluate == EvaluateInit /\ [][EvaluateNext]_vars

\* ------------------------------------------------- BasePipeline.save_trec

\* The fields BasePipeline.__init__ leaves on the object.
BaseConstructed == << <<"results_path", "results_dir">>, <<"model_name", "hybrid">> >>

\* The row BasePipeline.save_trec builds for index i (from 0) of the topic
\* under key: the topic is the key itself.
BaseRow(key, entry, i, name) ==
    [topic |-> key, Q0 |-> "Q0", doc |-> entry.ids[i + 1],
     rank |-> i + 1, score |-> entry.scores[i + 1], tag |-> name]

\* The local variable row after the inner loop over the ids of a topic: the
\* row of the last id, or what it was before when the topic has no id.
RowAfterTopic(row, key, entry, name) ==
    IF Len(entry.ids) = 0 THEN row ELSE <<BaseRow(key, entry, Len(entry.ids) - 1, name)>>

\* The loop of BasePipeline.save_trec over the keys of data from key
\* number j on: self.res.append(row) follows the inner loop, once per key;
\* row is <<>> while it is unbound, and appending it then raises.
RECURSIVE base_save_trec(_, _, _, _, _)
base_save_trec(d, name, j, row, rows) ==
    IF j > Len(d) THEN [status |-> "returned", rows |-> rows]
    ELSE LET after == RowAfterTopic(row, d[j][1], d[j][2], name)
         IN  IF after = <<>>
             THEN [status |-> "UnboundLocalError", rows |-> rows]
             ELSE base_save_trec(d, name, j + 1, after, Append(rows, after[1]))

\* A caller of BasePipeline.save_trec(data, save).
BaseInit ==
    /\ FusionUnused("BasePipeline")
    /\ self = BaseConstructed
    /\ NoDownload
    /\ NoSearch
    /\ model_name = "hybrid"
    /\ scores = <<>>
    /\ topics = <<>>
    /\ data \in GivenData
    /\ res = <<>>
    /\ stage = "given"
    /\ path_qrels = <<>>
    /\ fs = <<>>
    /\ questions_list = <<>>
    /\ evaluate = FALSE
    /\ clean_query = FALSE
    /\ save \in BOOLEAN
    /\ failing = "none"
    /\ queries = <<>>
    /\ calls = <<>>
    /\ results_file = [exists |-> FALSE, rows |-> <<>>]
    /\ res_path = None
    /\ mean_scores = <<>>
    /\ report_files = {}
    /\ result = Running

\* BasePipeline.save_trec: self.res is the table, also when the loop
\* raises; the file is written after the loop.
BaseSaveTrec ==
    /\ stage = "given"
    /\ LET out == base_save_trec(data, DictGet(self, "model_name"), 1, <<>>, <<>>)
       IN  /\ self' = DictSet(self, "res", out.rows)
           /\ IF out.status = "returned"
              THEN /\ res' = out.rows
                   /\ results_file' = IF save THEN [exists |-> TRUE, rows |-> out.rows]
                                               ELSE results_file
                   /\ result' = [Running EXCEPT !.status = "returned", !.returns = "res"]
                   /\ stage' = "saved"
              ELSE /\ Raise(out.status)
                   /\ UNCHANGED <<res, results_file>>
    /\ UNCHANGED <<fusionVars, model_name, scores, topics, data>>
    /\ UNCHANGED <<runInputs, downloads, query, corpus_df, queries, calls,
                   evaluateVars>>

BaseNext == BaseSaveTrec

\* BasePipeline.save_trec on every input within the bounds.
SpecBase == BaseInit /\ [][BaseNext]_vars

\* -------------------------------------------------- DocumentsIndex.search

\* Longest batch of queries given to search.
MaxBatch == 2

\* What the index finds for one query.
IndexHits == {<<>>, <<<<"d1", 100>>>>, <<<<"d1", 100>>, <<"d2", 80>>>>}

\* The orders in which a mapping of n keys may list them.
KeyOrders(n) == {p \in [1..n -> 1..n] : Range(p) = 1..n}

\* hits for a single query string: a dict with the key '0' in
\* documents_index.py, the bare list in DocumentsIndex.py.
SingleHits(file, found) ==
    IF file = "documents_index"
    THEN [returns |-> "dict", value |-> <<<<"0", found[1]>>>>]
    ELSE [returns |-> "list", value |-> found[1]]

\* search(query, k, corpus_df).  found[i] is what the index finds for the
\* i-th query; order is the order in which the mapping batch_search returns
\* lists the query ids it was given.  A dense index without corpus_df
\* prints an error and returns None; np.concatenate of no embedding raises.
search(file, index_type, q, corpus, found, order) ==
    IF index_type = "sparse"
    THEN IF q.list
         THEN [returns |-> "dict",
               value |-> [i \in DOMAIN order |->
                            <<PositionalKey(order[i] - 1), found[order[i]]>>]]
         ELSE SingleHits(file, found)
    ELSE IF corpus = "None" THEN [returns |-> "None", value |-> <<>>]
    ELSE IF q.list
         THEN IF Len(q.items) = 0
              THEN [returns |-> "ValueError", value |-> <<>>]
              ELSE [returns |-> "dict",
                    value |-> [i \in DOMAIN q.items |-> <<PositionalKey(i - 1), found[i]>>]]
         ELSE SingleHits(file, found)

\* The batches of n queries, "q1" .. "qn".
Batch(n) == [i \in 1..n |-> "q" \o ToString(i)]

\* A caller of search on a loaded index: a batch of queries or one query
\* string, with or without corpus_df.
SearchInit ==
    /\ FusionUnused("documents_index") \/ FusionUnused("DocumentsIndex")
    /\ \E t \in {"sparse", "dense"} : self = <<<<"index_type", t>>>>
    /\ NoDownload
    /\ \/ \E n \in 0..MaxBatch : query = [list |-> TRUE, items |-> Batch(n)]
       \/ query = [list |-> FALSE, items |-> Batch(1)]
    /\ corpus_df \in {"None", "given"}
    /\ model_name = "hybrid"
    /\ scores = <<>>
    /\ topics = <<>>
    /\ data = <<>>
    /\ res = <<>>
    /\ stage = "search"
    /\ path_qrels = <<>>
    /\ fs = <<>>
    /\ questions_list = <<>>
    /\ evaluate = FALSE
    /\ clean_query = FALSE
    /\ save = FALSE
    /\ failing = "none"
    /\ queries = <<>>
    /\ calls = <<>>
    /\ results_file = [exists |-> FALSE, rows |-> <<>>]
    /\ res_path = None
    /\ mean_scores = <<>>
    /\ report_files = {}
    /\ result = Running

\* One call of search: scores is the value returned.
Search ==
    /\ stage = "search"
    /\ \E found \in [DOMAIN query.items -> IndexHits], order \in KeyOrders(Len(query.items)) :
          LET hits == search(variant, DictGet(self, "index_type"), query, corpus_df,
                             found, order)
          IN  /\ scores' = hits.value
              /\ IF hits.returns = "ValueError"
                 THEN Raise("ValueError")
                 ELSE /\ result' = [Running EXCEPT !.status = "returned",
                                                   !.returns = hits.returns]
                      /\ stage' = "done"
    /\ UNCHANGED <<fusionVars, model_name, topics, data, res>>
    /\ UNCHANGED <<runInputs, objectVars, queries, calls, results_file, evaluateVars>>

SearchNext == Search

\* search on every input within the bounds.
SpecSearch == SearchInit /\ [][SearchNext]_vars

\* ------------------------------------------------------------ DownloadFile

\* The number of chunks of the file behind the url.
MaxChunks == 2

\* Most transfers started on one object.
MaxTransfers == 2

\* The content behind the url, chunk by chunk; also the content unpacked
\* from a complete archive.
Source == [i \in 1..MaxChunks |-> i]

\* The paths validate_name builds, split at the last dot: the file, and the
\* archives by extension.
FilePath == <<"downloads/file">>
ZipPaths == {<<"downloads/zips/file", e>> : e \in {"gz", "zip", "tar"}}

\* The fields __init__ leaves on a DownloadFile object.
DownloadObjects ==
    {<< <<"file_name", FilePath>>, <<"zip_name", z>>, <<"url", u>> >> :
        z \in {None} \cup ZipPaths, u \in {None, <<"url">>}}

\* file_path = self.file_name if self.zip_name is None else self.zip_name
file_path(fields) ==
    IF DictGet(fields, "zip_name") = None
    THEN DictGet(fields, "file_name") ELSE DictGet(fields, "zip_name")

\* How a transfer ends: urlopen raises; a read raises after some chunks
\* were written; every chunk is written.
TransferOutcomes ==
    {[failure |-> "urlopen", chunks |-> 0]}
        \cup {[failure |-> "read", chunks |-> j] : j \in 0..(MaxChunks - 1)}
        \cup {[failure |-> "none", chunks |-> MaxChunks]}

\* download(): the destination is opened for writing once urlopen has
\* answered, the chunks read are written to it, and an exception of a read
\* leaves what was written; a file already at the path skips the transfer.
download(fields, files, outcome) ==
    IF DictGet(fields, "url") = None
    THEN [status |-> "AssertionError", files |-> files, transfers |-> 0]
    ELSE IF DictHas(files, file_path(fields))
    THEN [status |-> "returned", files |-> files, transfers |-> 0]
    ELSE IF outcome.failure = "urlopen"
    THEN [status |-> "URLError", files |-> files, transfers |-> 1]
    ELSE [status |-> IF outcome.failure = "none" THEN "returned" ELSE "OSError",
          files |-> DictSet(files, file_path(fields), SubSeq(Source, 1, outcome.chunks)),
          transfers |-> 1]

\* uncompress(): by the extension of zip_name.  gzip.open of a missing
\* archive raises before the destination is opened; a truncated archive
\* raises in read(), after open(self.file_name, "wb") has created the file;
\* an empty archive reads as empty.  unpack_archive raises ReadError, which
\* is no ValueError, for what is no zip file.
uncompress(fields, files) ==
    LET zip == DictGet(fields, "zip_name")
        file == DictGet(fields, "file_name")
    IN  IF zip = None THEN [status |-> "AssertionError", files |-> files]
        ELSE IF zip[2] = "gz"
        THEN IF ~DictHas(files, zip)
             THEN [status |-> "FileNotFoundError", files |-> files]
             ELSE IF DictGet(files, zip) = Source
             THEN [status |-> "returned", files |-> DictSet(files, file, Source)]
             ELSE IF DictGet(files, zip) = <<>>
             THEN [status |-> "returned", files |-> DictSet(files, file, <<>>)]
             ELSE [status |-> "EOFError", files |-> DictSet(files, file, <<>>)]
        ELSE IF zip[2] = "zip"
        THEN IF DictHas(files, zip) /\ DictGet(files, zip) = Source
             THEN [status |-> "returned", files |-> DictSet(files, file, Source)]
             ELSE [status |-> "ReadError", files |-> files]
        ELSE [status |-> "returned", files |-> files]

\* __call__(): nothing when file_name exists; else download() when the url
\* is set, then uncompress() when zip_name is set.
call(fields, files, outcome) ==
    IF DictHas(files, DictGet(fields, "file_name"))
    THEN [status |-> "returned", files |-> files, transfers |-> 0]
    ELSE LET got == IF DictGet(fields, "url") # None
                    THEN download(fields, files, outcome)
                    ELSE [status |-> "returned", files |-> files, transfers |-> 0]
         IN  IF got.status # "returned" \/ DictGet(fields, "zip_name") = None
             THEN got
             ELSE LET out == uncompress(fields, got.files)
                  IN  [status |-> out.status, files |-> out.files,
                       transfers |-> got.transfers]

\* The files that may be in place before the object is used: complete ones.
FilesInPlace(fields) ==
    {<<>>, <<<<file_path(fields), Source>>>>}

\* A DownloadFile object, constructed.
DownloadInit ==
    /\ FusionUnused("DownloadFile")
    /\ self \in DownloadObjects
    /\ downloads \in FilesInPlace(self)
    /\ NoSearch
    /\ model_name = "hybrid"
    /\ scores = <<>>
    /\ topics = <<>>
    /\ data = <<>>
    /\ res = <<>>
    /\ stage = "idle"
    /\ path_qrels = <<>>
    /\ fs = <<>>
    /\ questions_list = <<>>
    /\ evaluate = FALSE
    /\ clean_query = FALSE
    /\ save = FALSE
    /\ failing = "none"
    /\ queries = <<>>
    /\ calls = <<>>
    /\ results_file = [exists |-> FALSE, rows |-> <<>>]
    /\ res_path = None
    /\ mean_scores = <<>>
    /\ report_files = {}
    /\ result = Running

\* What an invocation leaves: the files, the transfers started (calls of
\* urlopen) and how it ended.
Invoked(method, out) ==
    /\ downloads' = out.files
    /\ calls' = IF out.transfers = 1 THEN Append(calls, Call("urlopen", method)) ELSE calls
    /\ result' = IF out.status = "returned"
                 THEN [Running EXCEPT !.status = "returned", !.returns = method]
                 ELSE [Running EXCEPT !.status = "raised", !.exception = out.status,
                                      !.returns = method]
    /\ UNCHANGED <<fusionVars, assemblyVars, runInputs, self, query, corpus_df, queries,
                   results_file, evaluateVars>>

\* An invocation of download().
Download ==
    /\ Len(calls) < MaxTransfers
    /\ \E outcome \in TransferOutcomes : Invoked("download", download(self, downloads, outcome))

\* An invocation of __call__().
DownloadCall ==
    /\ Len(calls) < MaxTransfers
    /\ \E outcome \in TransferOutcomes : Invoked("__call__", call(self, downloads, outcome))

DownloadNext == Download \/ DownloadCall

\* Every sequence of invocations of download() and __call__() on an object,
\* the transfers failing or not.
SpecDownload == DownloadInit /\ [][DownloadNext]_vars

\* --------------------------------------------------- cleaning the queries

\* Longest query drawn from the alphabet.
MaxQuery == 4

Alphabet == {"a", " ", ",", "?"}

\* "Dogs, or cats?!"
ScenarioQuery ==
    <<"D", "o", "g", "s", ",", " ", "o", "r", " ", "c", "a", "t", "s", "?", "!">>

CleanInputs == {ScenarioQuery} \cup UNION {[1..n -> Alphabet] : n \in 0..MaxQuery}

\* A run of SparsePipeline.compute_results with clean_query=True that has
\* resolved its one query, whatever the text of the question.
CleanInit ==
    /\ FusionUnused("SparsePipeline")
    /\ self = Constructed
    /\ NoDownload
    /\ NoSearch
    /\ \E q \in CleanInputs : questions_list = <<q>> /\ queries = <<q>>
    /\ model_name = "hybrid"
    /\ scores = <<>>
    /\ topics = <<1>>
    /\ data = <<>>
    /\ res = <<>>
    /\ stage = "clean_queries"
    /\ path_qrels = <<FirstPath>>
    /\ fs = <<<<FirstPath, File(<<1>>)>>>>
    /\ evaluate = FALSE
    /\ clean_query = TRUE
    /\ save = FALSE
    /\ failing = "none"
    /\ calls = <<>>
    /\ results_file = [exists |-> FALSE, rows |-> <<>>]
    /\ res_path = None
    /\ mean_scores = <<>>
    /\ report_files = {}
    /\ result = Running

CleanNext == CleanQueries

\* __remove_punctuation on every query within the bounds.
SpecClean == CleanInit /\ [][CleanNext]_vars

\* ------------------------------------------------------- claims on fusion

Returned == hybrid_result.status = "returned"

\* The topic of the batch: its two candidate lists and its fused ranking.
DenseList == DictGet(dense_results, "0")
SparseList == DictGet(sparse_results, "0")
Ranking == DictGet(hybrid_result.value, "0")

\* The document ids of the two candidate lists, read off the arguments.
DenseIds == {DenseList[i][1] : i \in DOMAIN DenseList}
SparseIds == {SparseList[i][1] : i \in DOMAIN SparseList}
InputIds == DenseIds \cup SparseIds

Occurrences(doc) == Cardinality({i \in DOMAIN Ranking : Ranking[i][1] = doc})

\* The limit in force: k in hybrid_pipeline.py, the literal 40 in HybridPipeline.py.
LimitInForce == IF variant = "HybridPipeline" THEN 40 ELSE k

C2_LengthWithinLimit == Returned => Len(Ranking) <= k

AllEqual(results) ==
    /\ Len(results) > 0
    /\ \A i, j \in DOMAIN results : results[i][2] = results[j][2]

\* C3: with normalization on and a side whose scores are all identical,
\* fusion completes (no division by zero) and every combined score is a
\* number.
C3_DegenerateSideCompletes ==
    (/\ hybrid_result.status # "not called"
     /\ normalization
     /\ AllEqual(SparseList) \/ AllEqual(DenseList))
    => /\ Returned
       /\ \A i \in DOMAIN Ranking : ~Ranking[i][2].nan

\* The score of doc on a side, in tenths, as C4 states it: its own score, or
\* the minimum of the side (0 for a side without candidates).
SideTenths(results, doc) ==
    LET own == {i \in DOMAIN results : results[i][1] = doc}
        all == {results[i][2] : i \in DOMAIN results}
    IN  IF own # {} THEN results[CHOOSE i \in own : TRUE][2]
        ELSE IF all # {} THEN CHOOSE m \in all : \A x \in all : m <= x
        ELSE 0

\* alpha*s + d (s + alpha*d with weight_on_dense), as a fraction over
\* 10 * alpha[2].
ExpectedNumerator(doc) ==
    IF ~weight_on_dense
    THEN alpha[1] * SideTenths(SparseList, doc) + alpha[2] * SideTenths(DenseList, doc)
    ELSE alpha[2] * SideTenths(SparseList, doc) + alpha[1] * SideTenths(DenseList, doc)

ScenarioInput ==
    /\ SparseList = <<<<"d1", 100>>, <<"d2", 80>>>>
    /\ DenseList = <<<<"d2", 9>>, <<"d3", 7>>>>
    /\ alpha = <<1, 2>>
    /\ ~normalization
    /\ ~weight_on_dense
    /\ k = 3

\* C4: without normalization every document of the fused ranking scores
\* alpha*s + d (s + alpha*d with weight_on_dense), a missing side being
\* imputed with that side's minimum; in the scenario of the specification
\* the ranking is d1 5.7, d2 4.9, d3 4.7.
C4_RawCombination ==
    (Returned /\ ~normalization) =>
        /\ \A i \in DOMAIN Ranking :
              /\ ~Ranking[i][2].nan
              /\ Ranking[i][2].n * 10 * alpha[2] = Ranking[i][2].d * ExpectedNumerator(Ranking[i][1])
        /\ ScenarioInput =>
              Ranking = << <<"d1", [nan |-> FALSE, n |-> 57, d |-> 10]>>,
                           <<"d2", [nan |-> FALSE, n |-> 49, d |-> 10]>>,
                           <<"d3", [nan |-> FALSE, n |-> 47, d |-> 10]>> >>

C4_Witness == Returned /\ ScenarioInput /\ Len(Ranking) = 3

\* C5: the fused ranking is sorted by descending combined score:
\* score(a) >= score(b) for every adjacent pair (a, b).
C5_SortedDescending ==
    Returned =>
        \A i \in 1..(Len(Ranking) - 1) : RGeq(Ranking[i][2], Ranking[i + 1][2])

\* C6: two invocations on the same input return the same sequence.
C6_Reproducible ==
    (hybrid_result.status # "not called" /\ hybrid_result_again.status # "not called")
    => hybrid_result = hybrid_result_again

\* ----------------------------------------------------- claims on assembly

RowsOf(key) == SelectSeq(res, LAMBDA r : r.topic = ToString(key))

\* C7: the rows save_trec emits for a topic carry the ranks 1 .. len(ids) in
\* the order of the ids list; row i holds ids[i-1] and scores[i-1].
C7_RanksByPosition ==
    stage = "saved" =>
        \A t \in DOMAIN data :
            LET entry == data[t][2]
                rows == RowsOf(data[t][1])
            IN  /\ Len(rows) = Len(entry.ids)
                /\ \A i \in DOMAIN rows :
                      /\ rows[i].rank = i
                      /\ rows[i].doc = entry.ids[i]
                      /\ rows[i].score = entry.scores[i]

\* Two ids whose scores ascend: a re-sort would swap them.
C7_Witness ==
    /\ stage = "saved"
    /\ \E t \in DOMAIN data :
          /\ Len(data[t][2].ids) = 2
          /\ data[t][2].scores[1] < data[t][2].scores[2]
          /\ Len(RowsOf(data[t][1])) = 2

\* The candidate list filed under the positional key of index i.
ListOfIndex(i) == DictGet(scores, ToString(i))

\* The document ids of a candidate list, each at its first occurrence.
RECURSIVE FirstOccurrenceIds(_)
FirstOccurrenceIds(l) ==
    IF l = <<>> THEN <<>>
    ELSE LET front == FirstOccurrenceIds(SubSeq(l, 1, Len(l) - 1))
         IN  IF l[Len(l)][1] \in Range(front) THEN front
             ELSE Append(front, l[Len(l)][1])

\* C8: the results of positional key i are placed under topics[int(i)] and
\* under no other key; with topics [7, 12], under 7 and 12, not 0 or 1.
C8_PositionalKeyToTopic ==
    stage = "scored" =>
        /\ Range(DictKeys(data)) = Range(topics)
        /\ \A i \in 0..(Len(topics) - 1) :
              DictGet(data, topics[i + 1]).ids = FirstOccurrenceIds(ListOfIndex(i))

C8_Witness ==
    /\ stage = "scored"
    /\ topics = <<7, 12>>
    /\ ListOfIndex(0) = <<<<"d1", 100>>>>
    /\ ListOfIndex(1) = <<<<"d2", 80>>>>
    /\ DictGet(data, 7).ids = <<"d1">>
    /\ DictGet(data, 12).ids = <<"d2">>

\* The score of the first occurrence of doc in a candidate list.
FirstScore(l, doc) ==
    l[CHOOSE i \in DOMAIN l : l[i][1] = doc /\ \A j \in 1..(i - 1) : l[j][1] # doc][2]

\* C9: a document id that repeats in a candidate list appears once, with
\* the score of its first occurrence.
C9_FirstOccurrenceWins ==
    stage = "scored" =>
        \A i \in 0..(Len(topics) - 1) :
            LET entry == DictGet(data, topics[i + 1])
            IN  \A j \in DOMAIN entry.ids :
                    entry.scores[j] = FirstScore(ListOfIndex(i), entry.ids[j])

\* ------------------------------------------------------ claims on the run

SearchCalled ==
    \E i \in DOMAIN calls :
        calls[i].collaborator \in {"sparse_index.search", "dense_index.search"}

\* C10: a run in which a search collaborator is called has resolved only
\* topics with 0 <= topic - 1 < len(questions_list); any other topic makes
\* the run fail before the search.
C10_InvalidTopicFails ==
    SearchCalled =>
        \A i \in DOMAIN topics : 0 <= topics[i] - 1 /\ topics[i] - 1 < Len(questions_list)

\* A path given to the run names no file.
PathMissing == \E i \in DOMAIN path_qrels : ~DictGet(fs, path_qrels[i]).exists

\* C11: when a ground-truth path does not exist, compute_results of every
\* pipeline fails with the assertion of __check_filepath before the topics
\* are read and before any collaborator is called, and writes no results
\* file.
C11_MissingPathFailsFirst ==
    PathMissing =>
        /\ stage \in {"check_filepath", "done"}
        /\ stage = "done" =>
              result.status = "raised" /\ result.exception = "AssertionError"
        /\ topics = <<>>
        /\ queries = <<>>
        /\ calls = <<>>
        /\ ~results_file.exists
        /\ report_files = {}

\* The first file is there, a later one is not, and the run has ended.
C11_Witness ==
    /\ stage = "done"
    /\ Len(path_qrels) = 2
    /\ DictGet(fs, path_qrels[1]).exists
    /\ ~DictGet(fs, path_qrels[2]).exists
    /\ result.exception = "AssertionError"

StageRank(s) ==
    CASE s = "check_filepath" -> 1
      [] s = "read_topics" -> 2
      [] s = "resolve_queries" -> 3
      [] s = "clean_queries" -> 4
      [] s = "sparse_search" -> 5
      [] s = "dense_search" -> 6
      [] s \in {"hybrid_rerank", "reranking", "combine_scores"} -> 7
      [] s = "create_scores_dict" -> 8
      [] s = "save_trec" -> 9
      [] s \in {"evaluate", "compute_ndcg"} -> 10
      [] s = "done" -> 11

\* The stage in which a collaborator is called.
RankOfCall(c) ==
    CASE c.collaborator = "sparse_index.search" -> 5
      [] c.collaborator = "dense_index.search" -> 6
      [] c.collaborator = "monot5.rerank" -> 7
      [] c.collaborator = "compute_ndcg" -> 10

\* C13: every step of a run moves to a later stage of the order validate,
\* topics, queries, search, combine, write, evaluate (only the loop of
\* evaluate over the ground-truth files stays in its stage); a
\* collaborator is called in its own stage; the evaluation starts only
\* once the results file of this run is written, and compute_ndcg is given
\* its path.
C13_StagesInOrder ==
    [][/\ StageRank(stage') >= StageRank(stage)
       /\ StageRank(stage') = StageRank(stage) => stage \in {"evaluate", "compute_ndcg"}
       /\ calls' # calls =>
             /\ Len(calls') = Len(calls) + 1
             /\ RankOfCall(calls'[Len(calls')]) = StageRank(stage)
       /\ stage' = "evaluate" =>
             /\ results_file'.exists
             /\ results_file'.rows = res'
             /\ res_path' = results_path(model_name)
       /\ (calls' # calls /\ stage = "compute_ndcg") =>
             /\ calls'[Len(calls')].args[2] = results_path(model_name)
             /\ results_file.exists
             /\ results_file.rows = res]_vars

\* A run of the hybrid pipeline through every stage, two ground-truth
\* files evaluated.
C13_Witness ==
    /\ stage = "done"
    /\ variant = "hybrid_pipeline"
    /\ clean_query
    /\ result.status = "returned"
    /\ Len(calls) = 4
    /\ Len(NdcgCalls) = 2
    /\ Len(results_file.rows) > 0

\* The query of the topic of positional key i - 1, cleaned when requested.
QueryOfIndex(i) ==
    LET text == Item(questions_list, topics[i] - 1)
    IN  IF clean_query THEN remove_punctuation(<<text>>)[1] ELSE text

\* The calls of the re-ranker with the query and the candidates of key i - 1.
RerankCalls(i) ==
    {j \in DOMAIN calls :
        /\ calls[j].collaborator = "monot5.rerank"
        /\ calls[j].args = <<QueryOfIndex(i), DictKeys(sparse_results[i][2])>>}

\* C14: in a run of the re-rank pipeline that has searched, the re-ranker
\* is called exactly once for every positional key, with the query of
\* topics[i] and the candidates retrieved for the key.
C14_RerankOncePerKey ==
    (/\ variant = "monot5_pipeline"
     /\ stage = "done"
     /\ failing = "none"
     /\ Len(sparse_results) > 0)
    => \A i \in DOMAIN sparse_results : Cardinality(RerankCalls(i)) = 1

Distinct(seq) == \A i, j \in DOMAIN seq : i # j => seq[i] # seq[j]

\* C15: evaluate called with n distinct ground-truth paths returns n
\* reports, the report of each file under the name of the file and
\* computed against the results file.
C15_OneReportPerFile ==
    (/\ variant = "Pipeline.evaluate"
     /\ result.status = "returned"
     /\ Distinct(path_qrels))
    => /\ Len(result.ndcg.reports) = Len(path_qrels)
       /\ \A i \in DOMAIN path_qrels :
             /\ DictHas(result.ndcg.reports, QrelName(path_qrels[i]))
             /\ DictGet(result.ndcg.reports, QrelName(path_qrels[i])).qrel = path_qrels[i]
             /\ DictGet(result.ndcg.reports, QrelName(path_qrels[i])).results = res_path

\* C16: a run that a collaborator's failure has ended leaves no results
\* file and no report file.
C16_FailureLeavesNoOutput ==
    (/\ stage = "done"
     /\ result.status = "raised"
     /\ result.exception = "CollaboratorFailure")
    => /\ ~results_file.exists
       /\ report_files = {}

UniquePerTopic(rows) ==
    \A i, j \in DOMAIN rows :
        (i # j /\ rows[i].topic = rows[j].topic) => rows[i].doc # rows[j].doc

\* A candidate list that names a document more than once.
Repeats(l) == \E i, j \in DOMAIN l : i # j /\ l[i][1] = l[j][1]

\* C17: no two records of a topic name the same document, in the table
\* built, in the results file and in the scores handed back, also when a
\* search returned a document twice.
C17_UniqueDocsPerTopic ==
    /\ UniquePerTopic(res)
    /\ UniquePerTopic(results_file.rows)
    /\ \A t \in DOMAIN data : Distinct(data[t][2].ids)

\* Both searches returned a document twice for the first query, and the
\* results file holds the records of its topic.
C17_Witness ==
    /\ variant = "hybrid_pipeline"
    /\ stage = "done"
    /\ Len(sparse_results) > 0 /\ Repeats(sparse_results[1][2])
    /\ Len(dense_results) > 0 /\ Repeats(dense_results[1][2])
    /\ results_file.exists
    /\ \E i \in DOMAIN results_file.rows : results_file.rows[i].topic = ToString(topics[1])

\* The topic column of the first ground-truth file of the run.
FirstColumn == DictGet(fs, path_qrels[1]).column

\* C18: once read (every path given exists), the topic list is the distinct values of the topic
\* column of the first ground-truth file in ascending order; one query is
\* resolved per topic, and every record is of one of these topics, so that
\* a topic of a later file only is never queried and gets no record.
C18_TopicsOfFirstFile ==
    (~PathMissing /\ stage \notin {"check_filepath", "read_topics"}) =>
        /\ \A i, j \in DOMAIN topics : i < j => topics[i] < topics[j]
        /\ Range(topics) = Range(FirstColumn)
        /\ Len(queries) \in {0, Len(topics)}
        /\ \A i \in DOMAIN calls :
              calls[i].collaborator \in {"sparse_index.search", "dense_index.search"}
              => Len(calls[i].args) = Len(topics)
        /\ \A i \in DOMAIN results_file.rows :
              \E t \in Range(FirstColumn) : results_file.rows[i].topic = ToString(t)

\* The first file holds topic 2 twice, the later file topic 1 only: the
\* records are those of topic 2.
C18_Witness ==
    /\ stage = "done"
    /\ path_qrels = <<FirstPath, LaterPath>>
    /\ FirstColumn = <<2, 2>>
    /\ DictGet(fs, LaterPath) = File(<<1>>)
    /\ topics = <<2>>
    /\ Len(results_file.rows) > 0
    /\ \A i \in DOMAIN results_file.rows : results_file.rows[i].topic = "2"

\* A character the cleaning turns into a space, or a space.
Separator(c) == c \in Punctuation \/ c = " "

\* The number of maximal runs of separators in a query.
SeparatorRuns(q) ==
    Cardinality({i \in DOMAIN q : Separator(q[i]) /\ (i = 1 \/ ~Separator(q[i - 1]))})

\* "Dogs or cats "
ScenarioCleaned ==
    <<"D", "o", "g", "s", " ", "o", "r", " ", "c", "a", "t", "s", " ">>

\* C19: the cleaned query holds no punctuation character and no two
\* adjacent spaces; it keeps the other characters in their order and has
\* one space for every run of punctuation and spaces, also at its ends
\* (no trimming); "Dogs, or cats?!" becomes "Dogs or cats ".
C19_CleanQuery ==
    stage # "clean_queries" =>
        LET given == questions_list[1]
            out == queries[1]
        IN  /\ \A i \in DOMAIN out : out[i] \notin Punctuation
            /\ \A i \in 1..(Len(out) - 1) : ~(out[i] = " " /\ out[i + 1] = " ")
            /\ SelectSeq(out, LAMBDA c : c # " ") = SelectSeq(given, LAMBDA c : ~Separator(c))
            /\ Cardinality({i \in DOMAIN out : out[i] = " "}) = SeparatorRuns(given)
            /\ (given # <<>> /\ Separator(given[1])) => out[1] = " "
            /\ (given # <<>> /\ Separator(given[Len(given)])) => out[Len(out)] = " "
            /\ given = ScenarioQuery => out = ScenarioCleaned

C19_Witness ==
    /\ stage # "clean_queries"
    /\ questions_list = <<ScenarioQuery>>
    /\ queries = <<ScenarioCleaned>>

\* C20: compute_results returns the scores with the report when evaluate
\* is true and with None when it is false; it never returns nothing.
C20_ReturnsScoresAndReport ==
    result.status = "returned" =>
        /\ result.returns = "tuple"
        /\ result.scores = data
        /\ result.ndcg.none = ~evaluate

\* C21: a run keeps no state on the pipeline object: at every point of
\* compute_results and of save_trec the fields of the object are those its
\* construction left.
C21_NoStateKept == self \in {Constructed, BaseConstructed}

\* The number of (topic, document id) pairs of a mapping.
RECURSIVE PairCount(_)
PairCount(d) ==
    IF d = <<>> THEN 0 ELSE Len(d[1][2].ids) + PairCount(Tail(d))

\* C24: BasePipeline.save_trec completes and returns one row per (topic,
\* document id) pair of its input: sum of len(ids) rows, the ranks 1..k for
\* a topic with k ids, no row for a topic without ids.
C24_OneRowPerPair ==
    stage # "given" =>
        /\ result.status = "returned"
        /\ Len(res) = PairCount(data)
        /\ \A t \in DOMAIN data :
              LET rows == SelectSeq(res, LAMBDA r : r.topic = data[t][1])
              IN  /\ Len(rows) = Len(data[t][2].ids)
                  /\ \A i \in DOMAIN rows :
                        rows[i].rank = i /\ rows[i].doc = data[t][2].ids[i]

\* The results of the one search of a sparse-only or dense-only run.
Candidates == IF variant = "SparsePipeline" THEN sparse_results ELSE dense_results

\* The records of the results file of a topic.
RecordsOf(topic) == SelectSeq(results_file.rows, LAMBDA r : r.topic = ToString(topic))

\* C22: in the sparse-only and the dense-only pipeline the records of the
\* topic at batch position i are the candidate list under key i as the
\* collaborator returned it, when the list repeats no id: same ids, same
\* scores, same order, rank j for position j, nothing dropped or added.
C22_PassThrough ==
    (variant \in {"SparsePipeline", "dense_pipeline"} /\ results_file.exists) =>
        \A i \in DOMAIN topics :
            LET l == DictGet(Candidates, ToString(i - 1))
                rows == RecordsOf(topics[i])
            IN  ~Repeats(l) =>
                    /\ Len(rows) = Len(l)
                    /\ \A j \in DOMAIN rows :
                          /\ rows[j].doc = l[j][1]
                          /\ rows[j].score = l[j][2]
                          /\ rows[j].rank = j

\* Two topics, the second with two sparse candidates.
C22_Witness ==
    /\ variant = "SparsePipeline"
    /\ results_file.exists
    /\ Len(topics) = 2
    /\ DictGet(sparse_results, "1") = <<<<"d1", 100>>, <<"d2", 80>>>>
    /\ Len(RecordsOf(topics[2])) = 2

\* The fusion of a topic for which one side has no candidate, and the side
\* that has candidates.
OneSideEmpty == (DenseList = <<>>) # (SparseList = <<>>)
NonEmptySide == IF DenseList = <<>> THEN SparseList ELSE DenseList

\* The ranking lists documents in the descending score order of a side:
\* no document precedes one that the side scores higher, and a document
\* left out by the limit is scored no higher than any document kept.
InOrderOf(side) ==
    /\ \A i, j \in DOMAIN Ranking :
          i < j => SideTenths(side, Ranking[i][1]) >= SideTenths(side, Ranking[j][1])
    /\ \A i \in DOMAIN side, j \in DOMAIN Ranking :
          Occurrences(side[i][1]) = 0 => side[i][2] <= SideTenths(side, Ranking[j][1])
    /\ Len(Ranking) = IF Len(side) < LimitInForce THEN Len(side) ELSE LimitInForce

\* C23: when one side has no candidate for the topic the fusion does not
\* fail, with or without normalization, and when the other side has two
\* distinct scores the fused order is that side's descending score order.
C23_EmptySideCompletes ==
    (hybrid_result.status # "not called" /\ OneSideEmpty) =>
        /\ Returned
        /\ ~AllEqual(NonEmptySide) => InOrderOf(NonEmptySide)

\* The calls of a search collaborator.
SearchCalls ==
    {i \in DOMAIN calls :
        calls[i].collaborator \in {"sparse_index.search", "dense_index.search"}}

\* C25: a finished run of a pipeline that accepts clean_query, its paths
\* all present, has called a search, and every search was given one query
\* per topic in the order of the topics: the cleaned form of the resolved
\* query when clean_query is true, the resolved query itself otherwise.
C25_QueriesPassed ==
    (variant # "CombinationPipeline" /\ stage = "done" /\ ~PathMissing) =>
        /\ SearchCalls # {}
        /\ \A i \in SearchCalls :
              calls[i].args = [j \in DOMAIN topics |-> QueryOfIndex(j)]

\* C26: search returns a mapping keyed by the stringified 0-based position
\* of the query, for the sparse and for the dense index: the keys "0" ..
\* "n-1" for a batch of n queries, the single key "0" for a query string.
C26_KeyedByPosition ==
    stage = "done" =>
        /\ result.status = "returned"
        /\ result.returns = "dict"
        /\ {scores[i][1] : i \in DOMAIN scores} =
              {PositionalKey(i - 1) : i \in DOMAIN query.items}
        /\ Len(scores) = Len(query.items)

\* The keys of a mapping.
KeysOf(d) == {d[i][1] : i \in DOMAIN d}

\* C27: __hybrid_rerank returns an entry for exactly the keys of the dense
\* results, in their order, the empty list for a key both sides have no
\* candidate for; a key only the sparse results have gets no entry; a key
\* only the dense results have makes the call fail, with KeyError when no
\* earlier key has failed, instead of being fused with an empty sparse side.
C27_DenseKeysOnly ==
    hybrid_result.status # "not called" =>
        /\ Returned =>
              /\ DictKeys(hybrid_result.value) = DictKeys(dense_results)
              /\ \A key \in KeysOf(dense_results) :
                    (/\ DictGet(dense_results, key) = <<>>
                     /\ DictHas(sparse_results, key)
                     /\ DictGet(sparse_results, key) = <<>>)
                        => DictGet(hybrid_result.value, key) = <<>>
        /\ ~(KeysOf(dense_results) \subseteq KeysOf(sparse_results)) =>
              /\ ~Returned
              /\ ~normalization => hybrid_result.status = "KeyError"
        /\ (KeysOf(dense_results) \subseteq KeysOf(sparse_results) /\ ~normalization)
              => Returned

\* The sparse results have a key the dense results lack, and the one dense
\* key has no candidate on either side.
C27_Witness ==
    /\ Returned
    /\ KeysOf(dense_results) = {"1"}
    /\ KeysOf(sparse_results) = {"0", "1"}
    /\ DictGet(sparse_results, "0") # <<>>
    /\ hybrid_result.value = <<<<"1", <<>>>>>>

\* The position of a document in the fused ranking.
PositionOf(doc) == CHOOSE i \in DOMAIN Ranking : Ranking[i][1] = doc

\* a's sparse and dense score are each at least b's, one of them greater.
Dominates(a, b) ==
    /\ SideTenths(SparseList, a) >= SideTenths(SparseList, b)
    /\ SideTenths(DenseList, a) >= SideTenths(DenseList, b)
    /\ \/ SideTenths(SparseList, a) > SideTenths(SparseList, b)
       \/ SideTenths(DenseList, a) > SideTenths(DenseList, b)

Half == Rat(1, 2)
NegHalf == Rat(-1, 2)

\* x is a number of [-1/2, +1/2].
InHalfRange(x) == ~x.nan /\ RGeq(x, NegHalf) /\ RGeq(Half, x)

\* The normalized score of a document on each side, as the loop computes
\* it from the two candidate lists of the topic.
NormalizedSparseOf(doc) ==
    LET sparse_hits == Hits(SparseList)
        lo == min_sparse_score(sparse_hits)
    IN  Normalized(sparse_score(doc, Hits(DenseList), sparse_hits, lo),
                   lo, max_sparse_score(sparse_hits))
NormalizedDenseOf(doc) ==
    LET dense_hits == Hits(DenseList)
        lo == min_dense_score(dense_hits)
    IN  NormalizedDense(dense_score(doc, dense_hits, Hits(SparseList), lo),
                        lo, max_dense_score(dense_hits))

\* The side's normalized scores lie in [-1/2, +1/2]: +1/2 for its best
\* document, -1/2 for its worst and for a document it does not list.
SideInHalfRange(side, ids, normalized(_)) ==
    \A doc \in InputIds :
        /\ InHalfRange(normalized(doc))
        /\ doc \notin ids => REq(normalized(doc), NegHalf)
        /\ (doc \in ids /\ \A i \in DOMAIN side : side[i][2] <= SideTenths(side, doc))
              => REq(normalized(doc), Half)
        /\ (doc \in ids /\ \A i \in DOMAIN side : side[i][2] >= SideTenths(side, doc))
              => REq(normalized(doc), NegHalf)

\* (1 + alpha) / 2
CombinedBound == RDiv(RAdd(Rat(1, 1), Rat(alpha[1], alpha[2])), Rat(2, 1))

C30_FileCompleteOrAbsent ==
    DictHas(downloads, file_path(self)) => DictGet(downloads, file_path(self)) = Source

====
